---- MODULE Spec2Model ----
(***************************************************************************)
(* Model of aioriak.datatypes.set.Set: the client-side representation of   *)
(* a Riak observed-remove set.  An instance holds the immutable value last *)
(* received from the server (value), the causal context (context) and two  *)
(* staging sets (_adds, _removes).  The base class Datatype (value,        *)
(* context, _require_context, the reset of value and context after a       *)
(* round trip) is not part of src/ and is modelled from spec.md.           *)
(***************************************************************************)
EXTENDS Integers, FiniteSets, Sequences, TLC

(* ---- bounds ---- *)
NumStr == 2
NumInt == 1
NumCtx == 1
MaxRawLen == 2
MaxCycles == 2

(* ---- Python values ---- *)
PyNone == [type |-> "NoneType"]

PyStr(i) == [type |-> "str", val |-> i]

PyInt(i) == [type |-> "int", val |-> i]

Strings == {PyStr(i) : i \in 1..NumStr}

NonStrings == {PyInt(i) : i \in 1..NumInt}

Elements == Strings \cup NonStrings

Contexts == {[type |-> "bytes", val |-> i] : i \in 1..NumCtx}

OptContexts == {PyNone} \cup Contexts

\* a raw value handed in as a new snapshot: a list of values, or a non-iterable
PyList(s) == [type |-> "list", items |-> s]

RawValues == {PyList(s) : s \in UNION {[1..n -> Elements] : n \in 0..MaxRawLen}}
             \cup NonStrings

PyBool(b) == [type |-> "bool", val |-> b]

PyFrozenset(S) == [type |-> "frozenset", items |-> S]

isinstance_str(element) == element.type = "str"

isinstance_Iterable(new_value) == new_value.type = "list"

\* the set of the members of a sequence
Range(s) == {s[i] : i \in 1..Len(s)}

\* list(S) of a Python set S: every member once, in an order the
\* implementation chooses
list(S) == {s \in [1..Cardinality(S) -> S] : \A i, j \in 1..Cardinality(S) : i # j => s[i] # s[j]}

(* ---- state ---- *)
VARIABLES
    value,      \* Datatype._value: the immutable snapshot (a frozenset)
    context,    \* Datatype._context: PyNone or a context token
    adds,       \* Set._adds
    removes,    \* Set._removes
    ret,        \* outcome of the last call: exception raised, value returned
    lastOp,     \* the last call made on the instance and its arguments
    inflight,   \* whether the enclosing client has a commit in flight
    cycles      \* commit cycles completed so far, counted up to MaxCycles

vars == <<value, context, adds, removes, ret, lastOp, inflight, cycles>>

\* the element staged by the last call, when that call was made after the
\* delta of the commit in flight was read
LateAdds == IF inflight /\ lastOp.name = "add" /\ ret.raised = "none" THEN {lastOp.element} ELSE {}

LateRemoves == IF inflight /\ lastOp.name = "discard" /\ ret.raised = "none" THEN {lastOp.element} ELSE {}

\* the record of a call: its name and argument, and whether it repeats the
\* call made just before it
Call(name, element) ==
    [name |-> name, element |-> element, snapshot |-> {}, ctx |-> PyNone,
     repeat |-> (lastOp.name = name /\ lastOp.element = element),
     staged |-> {}, late |-> {}]

\* the record of a reset: its arguments, what was staged when it was called
\* and what of that the call before it staged during the commit in flight
ResetCall(newSnapshot, newContext) ==
    [name |-> "reset", element |-> PyNone, snapshot |-> newSnapshot, ctx |-> newContext,
     repeat |-> FALSE,
     staged |-> adds \cup removes, late |-> LateAdds \cup LateRemoves]

Returned(v) == [raised |-> "none", value |-> v]

Raised(exc) == [raised |-> exc, value |-> PyNone]

(* ---- Set ---- *)
_post_init_keeps_staging == UNCHANGED <<adds, removes>>

_post_init_keeps_adds == adds' = adds /\ removes' = {}

_post_init_keeps_removes == adds' = {} /\ removes' = removes

_post_init == adds' = {} /\ removes' = {}

_default_value == {}

_check_element_accepts_all(element) == "none"

_check_element(element) ==
    IF ~isinstance_str(element) THEN "TypeError" ELSE "none"

_require_context == IF context = PyNone THEN "ContextRequired" ELSE "none"

add_requires_context(element) ==
    /\ lastOp' = Call("add", element)
    /\ IF _check_element(element) # "none"
         THEN /\ ret' = Raised(_check_element(element))
              /\ UNCHANGED <<value, context, adds, removes, inflight, cycles>>
         ELSE IF _require_context # "none"
         THEN /\ ret' = Raised(_require_context)
              /\ UNCHANGED <<value, context, adds, removes, inflight, cycles>>
         ELSE /\ adds' = adds \cup {element}
              /\ ret' = Returned(PyNone)
              /\ UNCHANGED <<value, context, removes, inflight, cycles>>

add_applies_locally(element) ==
    /\ lastOp' = Call("add", element)
    /\ IF _check_element(element) # "none"
         THEN /\ ret' = Raised(_check_element(element))
              /\ UNCHANGED <<value, context, adds, removes, inflight, cycles>>
         ELSE /\ adds' = adds \cup {element}
              /\ value' = value \cup {element}
              /\ ret' = Returned(PyNone)
              /\ UNCHANGED <<context, removes, inflight, cycles>>

add_cancels_discard(element) ==
    /\ lastOp' = Call("add", element)
    /\ IF _check_element(element) # "none"
         THEN /\ ret' = Raised(_check_element(element))
              /\ UNCHANGED <<value, context, adds, removes, inflight, cycles>>
         ELSE /\ adds' = adds \cup {element}
              /\ removes' = removes \ {element}
              /\ ret' = Returned(PyNone)
              /\ UNCHANGED <<value, context, inflight, cycles>>

add_toggles(element) ==
    /\ lastOp' = Call("add", element)
    /\ IF _check_element(element) # "none"
         THEN /\ ret' = Raised(_check_element(element))
              /\ UNCHANGED <<value, context, adds, removes, inflight, cycles>>
         ELSE /\ adds' = (adds \ {element}) \cup ({element} \ adds)
              /\ ret' = Returned(PyNone)
              /\ UNCHANGED <<value, context, removes, inflight, cycles>>

add(element) ==
    /\ lastOp' = Call("add", element)
    /\ IF _check_element(element) # "none"
         THEN /\ ret' = Raised(_check_element(element))
              /\ UNCHANGED <<value, context, adds, removes, inflight, cycles>>
         ELSE /\ adds' = adds \cup {element}
              /\ ret' = Returned(PyNone)
              /\ UNCHANGED <<value, context, removes, inflight, cycles>>

discard_only_present(element) ==
    /\ lastOp' = Call("discard", element)
    /\ IF _check_element(element) # "none"
         THEN /\ ret' = Raised(_check_element(element))
              /\ UNCHANGED <<value, context, adds, removes, inflight, cycles>>
         ELSE IF _require_context # "none"
         THEN /\ ret' = Raised(_require_context)
              /\ UNCHANGED <<value, context, adds, removes, inflight, cycles>>
         ELSE IF element \notin value
         THEN /\ ret' = Returned(PyNone)
              /\ UNCHANGED <<value, context, adds, removes, inflight, cycles>>
         ELSE /\ removes' = removes \cup {element}
              /\ ret' = Returned(PyNone)
              /\ UNCHANGED <<value, context, adds, inflight, cycles>>

discard_cancels_add(element) ==
    /\ lastOp' = Call("discard", element)
    /\ IF _check_element(element) # "none"
         THEN /\ ret' = Raised(_check_element(element))
              /\ UNCHANGED <<value, context, adds, removes, inflight, cycles>>
         ELSE IF _require_context # "none"
         THEN /\ ret' = Raised(_require_context)
              /\ UNCHANGED <<value, context, adds, removes, inflight, cycles>>
         ELSE /\ removes' = removes \cup {element}
              /\ adds' = adds \ {element}
              /\ ret' = Returned(PyNone)
              /\ UNCHANGED <<value, context, inflight, cycles>>

discard_unstages(element) ==
    /\ lastOp' = Call("discard", element)
    /\ IF _check_element(element) # "none"
         THEN /\ ret' = Raised(_check_element(element))
              /\ UNCHANGED <<value, context, adds, removes, inflight, cycles>>
         ELSE IF _require_context # "none"
         THEN /\ ret' = Raised(_require_context)
              /\ UNCHANGED <<value, context, adds, removes, inflight, cycles>>
         ELSE /\ IF element \in adds
                    THEN adds' = adds \ {element} /\ removes' = removes
                    ELSE removes' = removes \cup {element} /\ adds' = adds
              /\ ret' = Returned(PyNone)
              /\ UNCHANGED <<value, context, inflight, cycles>>

discard_context_first(element) ==
    /\ lastOp' = Call("discard", element)
    /\ IF _require_context # "none"
         THEN /\ ret' = Raised(_require_context)
              /\ UNCHANGED <<value, context, adds, removes, inflight, cycles>>
         ELSE IF _check_element(element) # "none"
         THEN /\ ret' = Raised(_check_element(element))
              /\ UNCHANGED <<value, context, adds, removes, inflight, cycles>>
         ELSE /\ removes' = removes \cup {element}
              /\ ret' = Returned(PyNone)
              /\ UNCHANGED <<value, context, adds, inflight, cycles>>

discard_without_context(element) ==
    /\ lastOp' = Call("discard", element)
    /\ IF _check_element(element) # "none"
         THEN /\ ret' = Raised(_check_element(element))
              /\ UNCHANGED <<value, context, adds, removes, inflight, cycles>>
         ELSE /\ removes' = removes \cup {element}
              /\ ret' = Returned(PyNone)
              /\ UNCHANGED <<value, context, adds, inflight, cycles>>

discard(element) ==
    /\ lastOp' = Call("discard", element)
    /\ IF _check_element(element) # "none"
         THEN /\ ret' = Raised(_check_element(element))
              /\ UNCHANGED <<value, context, adds, removes, inflight, cycles>>
         ELSE IF _require_context # "none"
         THEN /\ ret' = Raised(_require_context)
              /\ UNCHANGED <<value, context, adds, removes, inflight, cycles>>
         ELSE /\ removes' = removes \cup {element}
              /\ ret' = Returned(PyNone)
              /\ UNCHANGED <<value, context, adds, inflight, cycles>>

\* the dict built by to_op, one per order list() may produce
changes_of(a, r) ==
    {[type |-> "dict",
      items |-> (IF a # {} THEN "adds" :> la ELSE <<>>)
                @@ (IF r # {} THEN "removes" :> lr ELSE <<>>)] :
        la \in list(a), lr \in list(r)}

to_op_returns_ignores_removes(a, r) ==
    IF a = {} THEN {PyNone} ELSE changes_of(a, r)

to_op_returns_empty_lists(a, r) ==
    IF a = {} /\ r = {}
      THEN {PyNone}
      ELSE {[type |-> "dict", items |-> ("adds" :> la) @@ ("removes" :> lr)] :
                la \in list(a), lr \in list(r)}

\* the values to_op can return when _adds = a and _removes = r
to_op_returns(a, r) ==
    IF a = {} /\ r = {} THEN {PyNone} ELSE changes_of(a, r)

to_op_consumes ==
    /\ lastOp' = Call("to_op", PyNone)
    /\ \E v \in to_op_returns(adds, removes) : ret' = Returned(v)
    /\ adds' = {}
    /\ removes' = {}
    /\ UNCHANGED <<value, context, inflight, cycles>>

to_op ==
    /\ lastOp' = Call("to_op", PyNone)
    /\ \E v \in to_op_returns(adds, removes) : ret' = Returned(v)
    /\ UNCHANGED <<value, context, adds, removes, inflight, cycles>>

modified_adds_only == Cardinality(adds) > 0

modified == Cardinality(removes \cup adds) > 0

__contains___sees_adds(element) == element \in value \cup adds

__contains__(element) == element \in value

__iter__ == list(value)

__len__ == Cardinality(value)

_coerce_value(new_value) == Range(new_value.items)

_check_type_first_only(new_value) ==
    IF ~isinstance_Iterable(new_value)
      THEN FALSE
      ELSE \A i \in 1..Len(new_value.items) : i = 1 => isinstance_str(new_value.items[i])

_check_type(new_value) ==
    IF ~isinstance_Iterable(new_value)
      THEN FALSE
      ELSE \A i \in 1..Len(new_value.items) : isinstance_str(new_value.items[i])

(* ---- Datatype and the enclosing client ---- *)
\* the snapshots the store can hand in: the raw values that pass validation,
\* coerced
Snapshots == {_coerce_value(new_value) : new_value \in {r \in RawValues : _check_type(r)}}

\* reset(newSnapshot, newContext): snapshot and context are replaced together
\* and the staging sets are cleared; a pure in-memory assignment
reset(newSnapshot, newContext) ==
    /\ lastOp' = ResetCall(newSnapshot, newContext)
    /\ value' = newSnapshot
    /\ context' = newContext
    /\ _post_init
    /\ ret' = Returned(PyNone)
    /\ inflight' = FALSE
    /\ cycles' = IF inflight /\ cycles < MaxCycles THEN cycles + 1 ELSE cycles

\* step (2) of a commit: the client sends the delta it has just read
ClientSend ==
    /\ ~inflight
    /\ lastOp.name = "to_op"
    /\ ret.value # PyNone
    /\ inflight' = TRUE
    /\ lastOp' = Call("send", PyNone)
    /\ UNCHANGED <<value, context, adds, removes, ret, cycles>>

\* the commit in flight is cancelled or fails: reset is never invoked for it
ClientCancel ==
    /\ inflight
    /\ inflight' = FALSE
    /\ lastOp' = Call("cancel", PyNone)
    /\ UNCHANGED <<value, context, adds, removes, ret, cycles>>

Init ==
    /\ value = _default_value
    /\ context = PyNone
    /\ adds = {}
    /\ removes = {}
    /\ ret = Returned(PyNone)
    /\ lastOp = [name |-> "init", element |-> PyNone, snapshot |-> {}, ctx |-> PyNone,
                 repeat |-> FALSE, staged |-> {}, late |-> {}]
    /\ inflight = FALSE
    /\ cycles = 0

Next ==
    \/ \E element \in Elements : add(element)
    \/ \E element \in Elements : discard(element)
    \/ to_op
    \/ \E newSnapshot \in Snapshots, newContext \in OptContexts : reset(newSnapshot, newContext)
    \/ ClientSend
    \/ ClientCancel

Spec == Init /\ [][Next]_vars

(* ---- a fresh snapshot arrives from the store ---- *)
\* the raw value is validated
ValidateRaw(new_value) ==
    /\ lastOp' = Call("_check_type", new_value)
    /\ ret' = Returned(PyBool(_check_type(new_value)))
    /\ UNCHANGED <<value, context, adds, removes, inflight, cycles>>

\* the raw value that has just been accepted is coerced
CoerceAccepted ==
    /\ lastOp.name = "_check_type"
    /\ ret.value = PyBool(TRUE)
    /\ lastOp' = Call("_coerce_value", lastOp.element)
    /\ ret' = Returned(PyFrozenset(_coerce_value(lastOp.element)))
    /\ UNCHANGED <<value, context, adds, removes, inflight, cycles>>

\* the instance is reset to the snapshot that has just been coerced
ResetCoerced ==
    /\ lastOp.name = "_coerce_value"
    /\ \E newContext \in OptContexts : reset(ret.value.items, newContext)

NextCoerce ==
    \/ \E new_value \in RawValues : ValidateRaw(new_value)
    \/ CoerceAccepted
    \/ ResetCoerced

SpecCoerce == Init /\ [][NextCoerce]_vars

(* ---- properties ---- *)
Staged(name) == lastOp.name = name /\ ret.raised = "none"

\* the element sets of the two fields of a value returned by to_op
ElementSets(v) ==
    IF v = PyNone
      THEN <<{}, {}>>
      ELSE <<IF "adds" \in DOMAIN v.items THEN Range(v.items["adds"]) ELSE {},
             IF "removes" \in DOMAIN v.items THEN Range(v.items["removes"]) ELSE {}>>

\* C1: contains, iteration and length are computed from the snapshot alone:
\* no call other than a reset changes any of them, whatever is staged.
C1_ReadOnlyView ==
    [][lastOp'.name # "reset" =>
          /\ \A x \in Elements : __contains__(x)' = __contains__(x)
          /\ __iter__' = __iter__
          /\ __len__' = __len__]_vars

\* an element has just been staged for addition and is not seen by contains
C1_Witness ==
    /\ Staged("add")
    /\ lastOp.element \in adds
    /\ ~__contains__(lastOp.element)
    /\ __len__ = 1

\* C2: with no context, discard of a string raises ContextRequired and leaves
\* both staging sets as they were.
C2_DiscardNeedsContext ==
    [][\A x \in Strings :
          (context = PyNone /\ lastOp'.name = "discard" /\ lastOp'.element = x) =>
              /\ ret' = Raised("ContextRequired")
              /\ UNCHANGED <<adds, removes>>]_vars

\* discard of a string has just failed for want of a context, with adds staged
C2_Witness ==
    /\ lastOp.name = "discard"
    /\ isinstance_str(lastOp.element)
    /\ context = PyNone
    /\ ret.raised = "ContextRequired"
    /\ adds # {}
    /\ removes = {}

\* C3: add and discard of a non-string raise the type error and leave both
\* staging sets as they were, with or without a context; the staging sets
\* hold strings only.
C3_OnlyStrings ==
    /\ [](adds \subseteq Strings /\ removes \subseteq Strings)
    /\ [][\A e \in NonStrings :
             (lastOp'.name \in {"add", "discard"} /\ lastOp'.element = e) =>
                 /\ ret' = Raised("TypeError")
                 /\ UNCHANGED <<adds, removes>>]_vars

\* discard of a non-string has just failed on an instance that has a context
C3_Witness ==
    /\ lastOp.name = "discard"
    /\ ~isinstance_str(lastOp.element)
    /\ context # PyNone
    /\ ret.raised = "TypeError"
    /\ adds # {}

\* C4: to_op returns None exactly when both staging sets are empty.
C4_NoOperationIff ==
    /\ (PyNone \in to_op_returns(adds, removes)) <=> (adds = {} /\ removes = {})
    /\ (adds = {} /\ removes = {}) => to_op_returns(adds, removes) = {PyNone}
    /\ lastOp.name = "to_op" => ((ret.value = PyNone) <=> (adds = {} /\ removes = {}))

\* to_op has just returned a dict with removals staged only
C4_Witness ==
    /\ lastOp.name = "to_op"
    /\ ret.value # PyNone
    /\ adds = {}
    /\ removes # {}

\* C5: in a dict returned by to_op a field is present exactly when its
\* staging set is non-empty, and then lists exactly the members of that set.
DeltaMatches(v, a, r) ==
    /\ ("adds" \in DOMAIN v.items) <=> (a # {})
    /\ ("removes" \in DOMAIN v.items) <=> (r # {})
    /\ \A k \in DOMAIN v.items : Len(v.items[k]) > 0
    /\ ElementSets(v) = <<a, r>>

C5_DeltaFields ==
    /\ \A v \in to_op_returns(adds, removes) : v # PyNone => DeltaMatches(v, adds, removes)
    /\ (lastOp.name = "to_op" /\ ret.value # PyNone) => DeltaMatches(ret.value, adds, removes)

\* to_op has just returned a dict with an adds field of two elements and no
\* removes field
C5_Witness ==
    /\ lastOp.name = "to_op"
    /\ ret.value # PyNone
    /\ DOMAIN ret.value.items = {"adds"}
    /\ Cardinality(adds) = 2

\* C6: modified is true exactly when something is staged; it is false on a
\* freshly constructed instance and true right after a successful add or
\* discard.
C6_ModifiedIff ==
    /\ modified <=> (adds \cup removes # {})
    /\ lastOp.name = "init" => ~modified
    /\ (Staged("add") \/ Staged("discard")) => modified

\* a discard has just succeeded with nothing staged for addition
C6_Witness ==
    /\ Staged("discard")
    /\ adds = {}
    /\ modified

\* C7: right after a successful reset both staging sets are empty, modified
\* is false, to_op returns None and contains holds exactly for the members of
\* the new snapshot.
C7_ResetClearsStaging ==
    Staged("reset") =>
        /\ adds = {}
        /\ removes = {}
        /\ ~modified
        /\ to_op_returns(adds, removes) = {PyNone}
        /\ \A x \in Elements : __contains__(x) <=> x \in lastOp.snapshot
        /\ context = lastOp.ctx

\* a reset to a non-empty snapshot has just cleared staged elements
C7_Witness ==
    /\ Staged("reset")
    /\ Cardinality(lastOp.staged) = 2
    /\ lastOp.snapshot # {}
    /\ adds = {}
    /\ removes = {}

\* C8 as stated: an element staged after the delta of the commit in flight
\* was read is still staged after the reset that ends the commit.
C8_LateStagingPreserved ==
    [][(inflight /\ lastOp'.name = "reset" /\ ret'.raised = "none") =>
          /\ LateAdds \subseteq adds'
          /\ LateRemoves \subseteq removes']_vars

\* C8 amended: the reset that ends a commit in flight clears everything
\* staged, what was staged after the delta was read included; none of it is
\* staged afterwards and the next to_op returns None.
C8_LateStagingDropped ==
    [][(inflight /\ lastOp'.name = "reset" /\ ret'.raised = "none") =>
          /\ adds' = {}
          /\ removes' = {}
          /\ (LateAdds \cup LateRemoves) \cap (adds' \cup removes') = {}
          /\ \A v \in to_op_returns(adds', removes') : ElementSets(v) = <<{}, {}>>]_vars

\* a reset has just ended a commit during which an element was staged
C8_Witness ==
    /\ Staged("reset")
    /\ lastOp.late # {}
    /\ lastOp.late \subseteq lastOp.staged
    /\ lastOp.late \cap (adds \cup removes) = {}

\* C9: to_op changes nothing; a commit that is cancelled leaves the instance
\* modified with the same staged elements, and to_op called again returns
\* the same element sets.
C9_ToOpReadOnly ==
    [][/\ lastOp'.name \in {"to_op", "send", "cancel"} =>
             UNCHANGED <<adds, removes, value, context>>
       /\ lastOp'.name = "cancel" => modified'
       /\ (lastOp.name = "to_op" /\ lastOp'.name = "to_op") =>
             ElementSets(ret'.value) = ElementSets(ret.value)
       /\ (lastOp.name = "cancel" /\ lastOp'.name = "to_op") =>
             /\ ret'.value # PyNone
             /\ ElementSets(ret'.value) = <<adds, removes>>]_vars

\* to_op has just been called a second time in a row and returned a dict
C9_Witness ==
    /\ lastOp.name = "to_op"
    /\ lastOp.repeat
    /\ ret.value # PyNone
    /\ modified
    /\ ElementSets(ret.value) = <<adds, removes>>

\* C10: add of a string right after add of the same string changes nothing,
\* and so does, with a context, discard right after discard of the same
\* string.
C10_Idempotent ==
    [][\A x \in Strings :
          /\ (Staged("add") /\ lastOp.element = x
                /\ lastOp'.name = "add" /\ lastOp'.element = x) =>
                    /\ UNCHANGED <<value, context, adds, removes>>
                    /\ ret'.raised = "none"
          /\ (Staged("discard") /\ lastOp.element = x /\ context # PyNone
                /\ lastOp'.name = "discard" /\ lastOp'.element = x) =>
                    /\ UNCHANGED <<value, context, adds, removes>>
                    /\ ret'.raised = "none"]_vars

\* add of a string has just been called a second time in a row
C10_Witness ==
    /\ Staged("add")
    /\ lastOp.repeat
    /\ lastOp.element \in adds

\* C11: add of a string needs no context: it succeeds in every state, and
\* the string is staged for addition afterwards, whether or not it is in the
\* snapshot or staged already.
C11_AddNeedsNoContext ==
    [][\A x \in Strings :
          (lastOp'.name = "add" /\ lastOp'.element = x) =>
              /\ ret' = Returned(PyNone)
              /\ x \in adds'
              /\ adds' = adds \cup {x}]_vars

\* add has just succeeded with no context, for a string that is in the
\* snapshot
C11_Witness ==
    /\ Staged("add")
    /\ context = PyNone
    /\ lastOp.element \in value
    /\ lastOp.element \in adds

\* C12: with a context, discard of a string succeeds whether or not the
\* string is in the snapshot; the string is staged for removal afterwards and
\* is in the removes field of the next to_op.
C12_DiscardOfAbsent ==
    [][/\ (context # PyNone /\ lastOp'.name = "discard" /\ lastOp'.element \in Strings) =>
             /\ ret' = Returned(PyNone)
             /\ lastOp'.element \in removes'
       /\ (Staged("discard") /\ lastOp'.name = "to_op") =>
             lastOp.element \in ElementSets(ret'.value)[2]
       /\ lastOp'.name = "to_op" =>
             removes \subseteq ElementSets(ret'.value)[2]]_vars

\* discard has just succeeded for a string that is not in the snapshot
C12_Witness ==
    /\ Staged("discard")
    /\ value # {}
    /\ lastOp.element \notin value
    /\ lastOp.element \in removes

\* C13: only a reset changes the snapshot or the context, and it assigns
\* both from its arguments; add, discard and to_op, failing or not, leave
\* both as they are.
C13_SnapshotAndContextTogether ==
    [][/\ lastOp'.name # "reset" => UNCHANGED <<value, context>>
       /\ (value' # value \/ context' # context) =>
             /\ lastOp'.name = "reset"
             /\ value' = lastOp'.snapshot
             /\ context' = lastOp'.ctx]_vars

\* a reset has just replaced a non-empty snapshot and installed a context
C13_Witness ==
    /\ Staged("reset")
    /\ value = lastOp.snapshot
    /\ context = lastOp.ctx
    /\ context # PyNone
    /\ value # {}
    /\ lastOp.staged # {}

\* C14: the two staging sets are not reconciled: with a context, add then
\* discard of the same string, or discard then add, leaves it in both sets,
\* and to_op then carries it in both fields.
C14_Overlap ==
    [][/\ (Staged("add") /\ lastOp.element \in Strings /\ context # PyNone
             /\ lastOp'.name = "discard" /\ lastOp'.element = lastOp.element) =>
                 lastOp.element \in adds' \cap removes'
       /\ (Staged("discard") /\ lastOp.element \in Strings
             /\ lastOp'.name = "add" /\ lastOp'.element = lastOp.element) =>
                 lastOp.element \in adds' \cap removes'
       /\ (adds \cap removes # {} /\ lastOp'.name = "to_op") =>
             /\ ret'.value # PyNone
             /\ adds \cap removes \subseteq
                   ElementSets(ret'.value)[1] \cap ElementSets(ret'.value)[2]]_vars

\* to_op has just returned a dict that has an element in both fields
C14_Witness ==
    /\ lastOp.name = "to_op"
    /\ ret.value # PyNone
    /\ ElementSets(ret.value)[1] \cap ElementSets(ret.value)[2] # {}

\* C15: a successful add or discard leads to the modified state, a failing
\* one and to_op leave the state as it is, a reset leads to the unmodified
\* state, and nothing but a reset leads from modified to unmodified.
C15_StateMachine ==
    [][/\ (lastOp'.name \in {"add", "discard"} /\ ret'.raised = "none") => modified'
       /\ (lastOp'.name \in {"add", "discard"} /\ ret'.raised # "none") =>
             (modified' <=> modified)
       /\ lastOp'.name = "to_op" => (modified' <=> modified)
       /\ lastOp'.name = "reset" => ~modified'
       /\ (modified /\ ~modified') => lastOp'.name = "reset"]_vars

\* a reset has just led from the modified state to the unmodified state
C15_Witness ==
    /\ Staged("reset")
    /\ lastOp.staged # {}
    /\ ~modified

\* C18: but for a reset no call takes an element out of a staging set: what
\* is staged stays staged and to_op returns it, and a discard does not undo
\* an add of the same string, nor an add a discard.
C18_StagingGrows ==
    [][lastOp'.name # "reset" =>
          /\ adds \subseteq adds'
          /\ removes \subseteq removes'
          /\ lastOp'.name = "to_op" =>
                /\ adds \subseteq ElementSets(ret'.value)[1]
                /\ removes \subseteq ElementSets(ret'.value)[2]]_vars

\* add of a string staged for removal has just succeeded, and the string is
\* still staged for removal
C18_Witness ==
    /\ Staged("add")
    /\ lastOp.element \in removes
    /\ Cardinality(adds) = 2

\* C19: discard checks the element before the context: with no context,
\* discard of a non-string raises the type error and discard of a string
\* raises ContextRequired, and neither stages anything.
C19_TypeBeforeContext ==
    [][\A e \in Elements :
          (context = PyNone /\ lastOp'.name = "discard" /\ lastOp'.element = e) =>
              /\ ret' = Raised(IF e \in NonStrings THEN "TypeError" ELSE "ContextRequired")
              /\ UNCHANGED <<adds, removes>>]_vars

\* discard of a non-string has just raised the type error with no context
C19_Witness ==
    /\ lastOp.name = "discard"
    /\ lastOp.element \in NonStrings
    /\ context = PyNone
    /\ ret = Raised("TypeError")

\* C16: no state is final: in every state add of any string can succeed,
\* to_op can be called and reset can be called and leads to the unmodified
\* state, however many commit cycles have been completed; a reset always
\* leaves nothing staged.
C16_NoTerminalState ==
    /\ \A x \in Strings : ENABLED (add(x) /\ ret' = Returned(PyNone) /\ x \in adds')
    /\ ENABLED to_op
    /\ \A newSnapshot \in Snapshots, newContext \in OptContexts :
          ENABLED (reset(newSnapshot, newContext) /\ ~modified')
    /\ lastOp.name = "reset" => (adds = {} /\ removes = {} /\ ~modified)

\* a reset has just ended a commit with elements staged, after MaxCycles
\* commit cycles at least
C16_Witness ==
    /\ Staged("reset")
    /\ cycles = MaxCycles
    /\ lastOp.late # {}
    /\ lastOp.staged # {}
    /\ ~modified

\* C17: validation accepts a raw value exactly when it is iterable and all
\* its elements are strings, and coercion of an accepted value gives a
\* frozenset whose members are exactly the elements of the raw value.
OccursIn(x, new_value) == \E i \in 1..Len(new_value.items) : new_value.items[i] = x

====
